---- MODULE Spec2Model ----
(***************************************************************************)
(* Model of the structured-logging pipeline of                             *)
(* kindredcircl_microservice_health:                                       *)
(*   utils/logging_config.py        configure_logging, SafeQueueListener   *)
(*   utils/custom_json_formatter.py CustomJSONFormatter                    *)
(*   config/config.py               CONFIG_ERRORS, LoggingConfig           *)
(* The standard-library classes the code instantiates (Logger,             *)
(* QueueHandler, QueueListener, Handler) are modelled by what CPython 3.11 *)
(* does at the call sites named in the comments.                           *)
(***************************************************************************)
EXTENDS Integers, Sequences, FiniteSets, TLC

VARIABLES
    rootHandlers,   \* logging.getLogger().handlers, in insertion order
    rootLevel,      \* logging.getLogger().level
    errHandlers,    \* logging.getLogger("logging_errors").handlers
    pipes,          \* one entry per configure_logging call: its queue, listener, handlers
    sinks,          \* what each sink has been given: file, console, error
    diag,           \* last-resort diagnostics (print in SafeQueueListener.handle, Handler.handleError)
    admitted,       \* history: records put on a queue, in admission order
    dropped,        \* history: records QueueHandler.emit could not enqueue
    dispatched,     \* history: records a listener has handled, with the fault then injected
    CONFIG_ERRORS,  \* config.config.CONFIG_ERRORS
    broken,         \* injected sink fault: [kind, mode], NoFault when none
    prod,           \* each producer's position inside Logger.callHandlers
    nextId,         \* next producer event id
    lastCall,       \* outcome of the most recent configure_logging call
    fmt,            \* formatter harness: inputs and output of CustomJSONFormatter.format
    load            \* configuration loader harness: inputs and outcome of Config.load

vars == <<rootHandlers, rootLevel, errHandlers, pipes, sinks, diag, admitted,
          dropped, dispatched, CONFIG_ERRORS, broken, prod, nextId,
          lastCall, fmt, load>>

pipeVars == <<rootHandlers, rootLevel, errHandlers, pipes, sinks, diag, admitted,
              dropped, dispatched, CONFIG_ERRORS, broken, prod, nextId,
              lastCall, load>>

-----------------------------------------------------------------------------
(* Bounds *)

\* producer log calls explored
MaxEvents == 2
\* configure_logging calls explored
MaxCalls == 2

\* deferred configuration errors explored
MaxConfigErrors == 1

\* the producer threads of a concurrent application
Producers == {"p1", "p2"}

-----------------------------------------------------------------------------
(* Severities *)

\* logging level numbers behind the names LoggingConfig accepts
levelno == [NOTSET |-> 0, DEBUG |-> 10, INFO |-> 20, WARNING |-> 30,
            ERROR |-> 40, CRITICAL |-> 50]

\* the log_queue_size values explored (LoggingConfig requires > 0)
QueueSizes == {1, 2}

\* the LoggingConfig values explored
Configs ==
    [log_level : {"INFO"},
     file_log_level : {"DEBUG"},
     console_log_level : {"WARNING"},
     log_queue_size : QueueSizes,
     enable_memory_logging : BOOLEAN]

\* what a producer may log: (severity, exception attached)
EventKinds ==
    {[level |-> "INFO", exc |-> FALSE],
     [level |-> "WARNING", exc |-> FALSE],
     [level |-> "ERROR", exc |-> TRUE]}

SinkKinds == {"file", "stream", "error"}

NoFault == [kind |-> "none", mode |-> "ok"]

\* the state of the sinks after the injected fault has gone away
Repaired == [kind |-> "none", mode |-> "repaired"]

\* a fault in one sink: "emit" fails inside Handler.emit (an I/O error),
\* "handle" makes Handler.handle itself raise (as the test's patch does)
Faults == [kind : SinkKinds, mode : {"emit", "handle"}]

\* the faults of the sinks the listener and the root logger write to
DispatchFaults == {f \in Faults : f.kind \in {"file", "stream"}}

\* the sink a handler kind writes to
SinkOf(kind) ==
    CASE kind = "file" -> "file"
      [] kind = "stream" -> "console"
      [] kind = "error" -> "error"

-----------------------------------------------------------------------------
(* The mutable world a log call acts on, threaded through the handlers *)

World == [sinks |-> sinks, pipes |-> pipes, diag |-> diag,
          admitted |-> admitted, dropped |-> dropped, dispatched |-> dispatched]

Outcome(w, raised) == [w |-> w, raised |-> raised]

\* Handler.handle of a file/stream/error handler: emit() catches its own
\* failures and reports them through handleError; a failure of handle itself
\* propagates to the caller.
SinkHandle(h, rec, via, w) ==
    IF broken = [kind |-> h.kind, mode |-> "handle"]
    THEN Outcome(w, TRUE)
    ELSE IF broken = [kind |-> h.kind, mode |-> "emit"]
    THEN Outcome([w EXCEPT !.diag = @ \cup
                     {[what |-> "handleError", kind |-> h.kind, id |-> rec.id, gen |-> h.gen]}],
                 FALSE)
    ELSE Outcome([w EXCEPT !.sinks[SinkOf(h.kind)] =
                     Append(@, [rec |-> rec, via |-> via, gen |-> h.gen])],
                 FALSE)

\* what identifies a record across its copies
Key(rec) == <<rec.kind, rec.id, rec.call>>

\* QueueHandler.prepare: the queued copy carries no exc_info
prepare(rec) == [rec EXCEPT !.exc = FALSE]

\* a queue that takes the record whatever its size
put_unbounded(q, size, rec) == Append(q, rec)

\* queue.Queue(max_queue_size).put_nowait as QueueHandler.enqueue calls it:
\* a full queue raises queue.Full and is left as it was
put_nowait(q, size, rec) ==
    IF Len(q) >= size THEN q ELSE Append(q, rec)

\* QueueHandler.handle -> emit: enqueue(prepare(record)), queue.Full is
\* caught and reported through handleError
QueueHandle(h, rec, w) ==
    LET q == w.pipes[h.gen].queue
        size == w.pipes[h.gen].cfg.log_queue_size
        q2 == put_nowait(q, size, prepare(rec))
    IN  IF q2 = q
        THEN Outcome([w EXCEPT !.diag = @ \cup
                         {[what |-> "handleError", kind |-> "queue", id |-> rec.id, gen |-> h.gen]},
                      !.dropped = @ \cup {[key |-> Key(rec), gen |-> h.gen]}],
                     FALSE)
        ELSE Outcome([w EXCEPT !.pipes[h.gen].queue = q2,
                               !.admitted = Append(@, [key |-> Key(rec), gen |-> h.gen])],
                     FALSE)

\* a handler loop that does not compare the record with the handler's level
HandlerHandleAnyLevel(h, rec, via, w) ==
    IF h.kind = "queue"
    THEN QueueHandle(h, rec, w)
    ELSE SinkHandle(h, rec, via, w)

\* one iteration of the loop in Logger.callHandlers
HandlerHandle(h, rec, via, w) ==
    IF levelno[rec.level] < levelno[h.level]
    THEN Outcome(w, FALSE)
    ELSE IF h.kind = "queue"
    THEN QueueHandle(h, rec, w)
    ELSE SinkHandle(h, rec, via, w)

\* Logger.callHandlers over a handler list, stopping at the first exception
RECURSIVE CallHandlers(_, _, _, _, _)
CallHandlers(hs, i, rec, via, w) ==
    IF i > Len(hs)
    THEN Outcome(w, FALSE)
    ELSE LET r == HandlerHandle(hs[i], rec, via, w)
         IN  IF r.raised THEN r ELSE CallHandlers(hs, i + 1, rec, via, r.w)

-----------------------------------------------------------------------------
(* The Dispatch Loop: SafeQueueListener *)

\* QueueListener._sentinel
sentinel == [kind |-> "sentinel", id |-> 0, call |-> 0, level |-> "NOTSET", exc |-> FALSE]

\* SafeQueueListener(log_queue, file_handler, stream_handler, respect_handler_level=True)
ListenerHandlers(g) ==
    <<[kind |-> "file", gen |-> g, level |-> pipes[g].cfg.file_log_level],
      [kind |-> "stream", gen |-> g, level |-> pipes[g].cfg.console_log_level]>>

\* QueueListener.handle without the try/except around it
UnsafeHandle(g, rec, w) ==
    LET r == CallHandlers(ListenerHandlers(g), 1, rec, "queue", w)
    IN  Outcome([r.w EXCEPT !.dispatched = @ \cup {[rec |-> rec, gen |-> g, fault |-> broken]}],
                r.raised)

\* SafeQueueListener.handle: try: super().handle(record) except Exception: print(...)
SafeHandle(g, rec, w) ==
    LET r == CallHandlers(ListenerHandlers(g), 1, rec, "queue", w)
        w2 == [r.w EXCEPT !.dispatched = @ \cup {[rec |-> rec, gen |-> g, fault |-> broken]}]
    IN  IF r.raised
        THEN Outcome([w2 EXCEPT !.diag = @ \cup
                         {[what |-> "print", kind |-> "listener", id |-> rec.id, gen |-> g]}],
                     FALSE)
        ELSE Outcome(w2, FALSE)

Install(w) ==
    /\ sinks' = w.sinks
    /\ pipes' = w.pipes
    /\ diag' = w.diag
    /\ admitted' = w.admitted
    /\ dropped' = w.dropped
    /\ dispatched' = w.dispatched

\* One turn of QueueListener._monitor: dequeue, stop on the sentinel, else handle
Monitor(g) ==
    /\ g \in 1 .. Len(pipes)
    /\ pipes[g].worker = "running"
    /\ pipes[g].queue # <<>>
    /\ LET rec == Head(pipes[g].queue)
           w0 == [World EXCEPT !.pipes[g].queue = Tail(@)]
       IN  IF rec = sentinel
           THEN Install([w0 EXCEPT !.pipes[g].worker = "stopped"])
           ELSE LET r == SafeHandle(g, rec, w0)
                IN  Install([r.w EXCEPT !.pipes[g].worker =
                                 IF r.raised THEN "crashed" ELSE "running"])
    /\ UNCHANGED <<rootHandlers, rootLevel, errHandlers, CONFIG_ERRORS, broken,
                   prod, nextId, lastCall, fmt, load>>

\* QueueListener.stop, inherited by SafeQueueListener: enqueue_sentinel uses
\* put_nowait, so a full queue raises queue.Full and nothing is enqueued
Stop(g) ==
    /\ g \in 1 .. Len(pipes)
    /\ pipes[g].worker = "running"
    /\ ~pipes[g].stopping
    /\ Len(pipes[g].queue) < pipes[g].cfg.log_queue_size
    /\ pipes' = [pipes EXCEPT ![g].queue = Append(@, sentinel), ![g].stopping = TRUE]
    /\ UNCHANGED <<rootHandlers, rootLevel, errHandlers, sinks, diag, admitted, dropped,
                   dispatched, CONFIG_ERRORS, broken, prod, nextId, lastCall, fmt, load>>

-----------------------------------------------------------------------------
(* Pipeline Bootstrap: configure_logging *)

\* the exceptions a step of configure_logging is made to raise
StepErrors ==
    {[type |-> "PermissionError", msg |-> "Directory creation failed"],
     [type |-> "Exception", msg |-> "Unexpected failure"]}

\* the exception a failing Handler.handle raises
HandlerError == [type |-> "Exception", msg |-> "Handler error"]

\* isinstance(e, cls) for the exception classes above
IsInstance(e, cls) ==
    CASE cls = "Exception" -> e.type \in {"Exception", "OSError", "PermissionError",
                                          "LoggingConfigurationError"}
      [] cls = "OSError" -> e.type \in {"OSError", "PermissionError"}
      [] OTHER -> e.type = cls

\* a handler that only wraps OSError
ExceptOSError(e) ==
    IF IsInstance(e, "OSError")
    THEN [type |-> "LoggingConfigurationError",
          msg |-> <<"Error configuring logging: ", e.msg>>]
    ELSE [type |-> e.type, msg |-> <<e.msg>>]

\* except Exception as e: raise LoggingConfigurationError(f"... Error configuring logging: {e}")
\* The message is the pieces the f-string joins.
ExceptClause(e) ==
    IF IsInstance(e, "Exception")
    THEN [type |-> "LoggingConfigurationError",
          msg |-> <<"Error configuring logging: ", e.msg>>]
    ELSE [type |-> e.type, msg |-> <<e.msg>>]

\* the steps of configure_logging that can be made to fail, in program order
FailPoints ==
    <<"makedirs", "chmod", "file_handler", "error_handler", "listener_start",
      "addHandler_stream", "addHandler_file", "addHandler_queue",
      "error_addHandler">>

Reached(fp, step) ==
    \/ fp = "none"
    \/ \E i, j \in 1 .. Len(FailPoints) :
          /\ FailPoints[i] = fp /\ FailPoints[j] = step /\ j < i

\* the handlers one call constructs
stream_handler(g, c) == [kind |-> "stream", gen |-> g, level |-> c.console_log_level]
file_handler(g, c) == [kind |-> "file", gen |-> g, level |-> c.file_log_level]
queue_handler(g) == [kind |-> "queue", gen |-> g, level |-> "NOTSET"]
error_handler(g) == [kind |-> "error", gen |-> g, level |-> "ERROR"]

\* a call that adds its handlers without clearing the list first
RootAfterNoClear(fp, g, c) ==
    rootHandlers
    \o (IF Reached(fp, "addHandler_stream") THEN <<stream_handler(g, c)>> ELSE <<>>)
    \o (IF Reached(fp, "addHandler_file") THEN <<file_handler(g, c)>> ELSE <<>>)
    \o (IF Reached(fp, "addHandler_queue") THEN <<queue_handler(g)>> ELSE <<>>)

\* the root logger's handler list when the call fails at fp (or does not fail):
\* if logger.hasHandlers(): logger.handlers.clear(), then the three addHandler
RootAfter(fp, g, c) ==
    IF ~Reached(fp, "listener_start") THEN rootHandlers
    ELSE (IF Reached(fp, "addHandler_stream") THEN <<stream_handler(g, c)>> ELSE <<>>)
         \o (IF Reached(fp, "addHandler_file") THEN <<file_handler(g, c)>> ELSE <<>>)
         \o (IF Reached(fp, "addHandler_queue") THEN <<queue_handler(g)>> ELSE <<>>)

\* the pipeline objects the call has created when it fails at fp
PipeAfter(fp, c) ==
    [cfg |-> c,
     queue |-> <<>>,
     worker |-> IF Reached(fp, "listener_start") THEN "running" ELSE "none",
     stopping |-> FALSE,
     fileOpen |-> Reached(fp, "file_handler"),
     errOpen |-> Reached(fp, "error_handler")]

\* for error in CONFIG_ERRORS: error_logger.error(f"Configuration Error: {error}")
\* The "logging_errors" logger propagates to the root logger.
RECURSIVE LogConfigErrors(_, _, _, _)
LogConfigErrors(i, g, hs, w) ==
    IF i > Len(CONFIG_ERRORS)
    THEN Outcome(w, FALSE)
    ELSE LET rec == [kind |-> "config_error", id |-> i, call |-> g,
                     level |-> "ERROR", exc |-> FALSE]
             r == CallHandlers(hs, 1, rec, "direct", w)
         IN  IF r.raised THEN r ELSE LogConfigErrors(i + 1, g, hs, r.w)

\* if config.logging.enable_memory_logging: logger.info("Logging system initialized", ...)
LogStartup(g, c, hs, w) ==
    IF c.enable_memory_logging /\ levelno["INFO"] >= levelno[c.log_level]
    THEN CallHandlers(hs, 1, [kind |-> "startup", id |-> 0, call |-> g,
                              level |-> "INFO", exc |-> FALSE], "direct", w)
    ELSE Outcome(w, FALSE)

\* configure_logging(config), failing at step fp with exception e ("none": no
\* step fails; the log calls it makes can still raise)
configure_logging(c, fp, e) ==
    /\ Len(pipes) < MaxCalls
    /\ LET g == Len(pipes) + 1
           root2 == RootAfter(fp, g, c)
           err2 == IF fp = "none" THEN Append(errHandlers, error_handler(g)) ELSE errHandlers
           w0 == [World EXCEPT !.pipes = Append(@, PipeAfter(fp, c))]
           r1 == IF fp = "none" THEN LogConfigErrors(1, g, err2 \o root2, w0)
                 ELSE Outcome(w0, FALSE)
           r2 == IF fp = "none" /\ ~r1.raised THEN LogStartup(g, c, root2, r1.w) ELSE r1
           cause == IF fp # "none" THEN e ELSE HandlerError
           failed == fp # "none" \/ r2.raised
       IN  /\ rootHandlers' = root2
           /\ rootLevel' = IF Reached(fp, "addHandler_queue") THEN c.log_level ELSE rootLevel
           /\ errHandlers' = err2
           /\ Install(r2.w)
           /\ lastCall' = [status |-> IF failed THEN "raised" ELSE "ok",
                           cause |-> IF failed THEN cause ELSE [type |-> "none", msg |-> ""],
                           exc |-> IF failed THEN ExceptClause(cause)
                                   ELSE [type |-> "none", msg |-> <<>>],
                           rootBefore |-> rootHandlers,
                           nErrors |-> Len(CONFIG_ERRORS)]
    /\ UNCHANGED <<CONFIG_ERRORS, broken, prod, nextId, fmt, load>>

\* Config.load failing: the error message is appended to CONFIG_ERRORS
ConfigLoadFails ==
    /\ Len(CONFIG_ERRORS) < MaxConfigErrors
    /\ CONFIG_ERRORS' = Append(CONFIG_ERRORS, "Configuration file is empty or invalid.")
    /\ UNCHANGED <<rootHandlers, rootLevel, errHandlers, pipes, sinks, diag, admitted,
                   dropped, dispatched, broken, prod, nextId, lastCall, fmt, load>>

-----------------------------------------------------------------------------
(* Producers: a log call through the installed root logger *)

Idle(result) == [pc |-> "idle", rec |-> sentinel, idx |-> 0, result |-> result]

\* One iteration of "for hdlr in c.handlers" in Logger.callHandlers, run by the
\* producer's own thread on handler number i. An exception of hdlr.handle ends
\* the call; so does the end of the list.
Iterate(p, rec, i) ==
    LET r == HandlerHandle(rootHandlers[i], rec, "direct", World)
    IN  /\ Install(r.w)
        /\ prod' = [prod EXCEPT ![p] =
                      IF r.raised THEN Idle("raised")
                      ELSE IF i >= Len(rootHandlers) THEN Idle("returned")
                      ELSE [pc |-> "calling", rec |-> rec, idx |-> i, result |-> "none"]]

\* logger.debug/info/warning/error/exception: Logger.isEnabledFor, then
\* Logger.handle -> callHandlers. With no handler on the root logger the record
\* goes to logging.lastResort (stderr, WARNING and above).
Log(p, k) ==
    /\ prod[p].pc = "idle"
    /\ nextId <= MaxEvents
    /\ Len(pipes) >= 1
    /\ nextId' = nextId + 1
    /\ LET rec == [kind |-> "event", id |-> nextId, call |-> 0,
                   level |-> k.level, exc |-> k.exc]
       IN  IF levelno[k.level] < levelno[rootLevel]
           THEN /\ prod' = [prod EXCEPT ![p] = Idle("returned")]
                /\ UNCHANGED <<pipes, sinks, diag, admitted, dropped, dispatched>>
           ELSE IF rootHandlers = <<>>
           THEN /\ prod' = [prod EXCEPT ![p] = Idle("returned")]
                /\ diag' = IF levelno[k.level] >= levelno["WARNING"]
                           THEN diag \cup {[what |-> "lastResort", kind |-> "root",
                                            id |-> nextId, gen |-> 0]}
                           ELSE diag
                /\ UNCHANGED <<pipes, sinks, admitted, dropped, dispatched>>
           ELSE Iterate(p, rec, 1)
    /\ UNCHANGED <<rootHandlers, rootLevel, errHandlers, CONFIG_ERRORS, broken,
                   lastCall, fmt, load>>

\* the producer's thread goes on with the next handler of the list, or leaves
\* the loop when the list has (by now) no further handler
LogStep(p) ==
    /\ prod[p].pc = "calling"
    /\ IF prod[p].idx < Len(rootHandlers)
       THEN Iterate(p, prod[p].rec, prod[p].idx + 1)
       ELSE /\ prod' = [prod EXCEPT ![p] = Idle("returned")]
            /\ UNCHANGED <<pipes, sinks, diag, admitted, dropped, dispatched>>
    /\ UNCHANGED <<rootHandlers, rootLevel, errHandlers, CONFIG_ERRORS, broken, nextId,
                   lastCall, fmt, load>>

-----------------------------------------------------------------------------
(* Environment: sink faults *)

\* a sink starts failing (disk full, or Handler.handle patched to raise)
InjectFault(f) ==
    /\ broken = NoFault
    /\ Len(pipes) >= 1
    /\ broken' = f
    /\ UNCHANGED <<rootHandlers, rootLevel, errHandlers, pipes, sinks, diag, admitted,
                   dropped, dispatched, CONFIG_ERRORS, prod, nextId, lastCall, fmt, load>>

\* the fault goes away
ClearFault ==
    /\ broken \in Faults
    /\ broken' = Repaired
    /\ UNCHANGED <<rootHandlers, rootLevel, errHandlers, pipes, sinks, diag, admitted,
                   dropped, dispatched, CONFIG_ERRORS, prod, nextId, lastCall, fmt, load>>

-----------------------------------------------------------------------------
(* Record Enricher: CustomJSONFormatter *)

\* the four feature flags of LoggingConfig
FlagSets ==
    [enable_memory_logging : BOOLEAN,
     enable_execution_time_logging : BOOLEAN,
     enable_request_metadata : BOOLEAN,
     enable_stack_trace_logging : BOOLEAN]

LevelNames == {"DEBUG", "INFO", "WARNING", "ERROR", "CRITICAL"}

\* metadata keys a caller may pass as extra={...}; Logger.makeRecord turns
\* each into an attribute of the record
MetaKeys == {"request_id", "execution_time_ms", "memory_usage_mb"}

\* what a caller may pass as a metadata value: a string, or an object
\* json.dumps has no encoding for
MetaValues == {"str", "object"}

\* record.exc_info as Logger._log leaves it: None (no exc_info argument),
\* False (exc_info=False), (None, None, None) (exc_info=True with no exception
\* being handled), or the (type, value, traceback) of an exception
ExcInfos == {"None", "False", "empty", "tuple"}

\* bool(record.exc_info)
Truthy(exc_info) == exc_info \in {"empty", "tuple"}

\* the outcomes of psutil.Process().memory_info(): a value, or one of
\* NoSuchProcess / AccessDenied / ZombieProcess
Probes == {"ok", "denied"}

\* a dict with the given keys, all holding v
Dict(keys, v) == [k \in keys |-> v]

\* dict.update / item assignment: the entries of new override those of old
Update(old, new) == new @@ old

\* the LogRecord attributes _extract_extra_fields keeps: everything in
\* record.__dict__ but args, msg, exc_info, exc_text, created, msecs,
\* relativeCreated, stack_info
_extract_extra_fields(rec) ==
    Update(Dict({"name", "levelname", "levelno", "module", "funcName", "lineno",
                 "process", "thread"}, "attr"),
           Dict(rec.extra, rec.value))

\* getattr(log_record, key, default)
GetAttr(rec, key, default) == IF key \in rec.extra THEN rec.value ELSE default

\* get_memory_usage: the resident size, or "UNKNOWN" when psutil reports
\* NoSuchProcess, AccessDenied or ZombieProcess
get_memory_usage(probe) == IF probe = "ok" THEN "number" ELSE "UNKNOWN"

\* json_log_formatter.JSONFormatter.json_record: message, time, exc_info
BaseJsonRecord(rec, extra) ==
    Update(Update(extra, Dict({"message", "time"}, "value")),
           IF Truthy(rec.exc_info) THEN Dict({"exc_info"}, "formatted") ELSE <<>>)

\* the try block that ends json_record. Unpacking False raises TypeError;
\* (None, None, None) has no traceback object, and
\* traceback.format_exception(exc_type, exc_value) raises ValueError; both are
\* caught and reported in the field.
StackTraceStep(rec) ==
    IF rec.levelname \in {"ERROR", "CRITICAL"} /\ rec.exc_info # "None"
    THEN Dict({"stack_trace"}, IF rec.exc_info = "tuple" THEN "formatted"
                               ELSE "retrieval_error")
    ELSE IF rec.levelname \in {"ERROR", "CRITICAL"} /\ rec.exc_info = "None"
    THEN Dict({"stack_trace"}, "sentinel")
    ELSE <<>>

\* CustomJSONFormatter.json_record, with flags the module-level config
json_record(rec, extra, flags, probe) ==
    LET r0 == BaseJsonRecord(rec, extra)
        r1 == IF flags.enable_request_metadata
              THEN Update(r0, [k \in {"request_id", "user_id", "feed_type"} |->
                                  GetAttr(rec, k, IF k \in DOMAIN extra THEN extra[k]
                                                  ELSE "UNKNOWN")])
              ELSE r0
        r2 == Update(r1, [k \in {"trace_id", "span_id"} |-> GetAttr(rec, k, "UNKNOWN")])
        r3 == Update(r2, Dict({"module", "function", "line", "process", "thread",
                               "hostname", "environment", "timestamp"}, "value"))
        r4 == IF flags.enable_execution_time_logging
              THEN Update(r3, Dict({"execution_time_ms"},
                                   GetAttr(rec, "execution_time_ms", "UNKNOWN")))
              ELSE r3
        r5 == IF flags.enable_memory_logging
              THEN Update(r4, Dict({"memory_usage_mb"}, get_memory_usage(probe)))
              ELSE r4
    IN  Update(r5, StackTraceStep(rec))

\* the dict CustomJSONFormatter.format hands to json.dumps;
\* traceback.format_exception(None, None, None) renders "NoneType: None"
structured_record(rec, flags, probe) ==
    LET s0 == json_record(rec, _extract_extra_fields(rec), flags, probe)
        s1 == Update(s0, Dict({"levelname", "timestamp", "module", "function", "line",
                               "process", "thread", "hostname", "environment"}, "value"))
        s2 == IF flags.enable_execution_time_logging
              THEN Update(s1, Dict({"execution_time_ms"},
                                   GetAttr(rec, "execution_time_ms", "UNKNOWN")))
              ELSE s1
        s3 == IF flags.enable_memory_logging
              THEN Update(s2, Dict({"memory_usage_mb"}, get_memory_usage(probe)))
              ELSE s2
    IN  IF Truthy(rec.exc_info)
        THEN Update(s3, Dict({"stack_trace"}, IF rec.exc_info = "tuple" THEN "formatted"
                                              ELSE "formatted_none"))
        ELSE s3

\* json.dumps(structured_record), called with no default=: a value with no
\* JSON encoding raises TypeError
dumps(d) ==
    IF \E k \in DOMAIN d : d[k] = "object"
    THEN [raised |-> TRUE, exc |-> "TypeError", line |-> <<>>]
    ELSE [raised |-> FALSE, exc |-> "none", line |-> d]

\* CustomJSONFormatter.format: the JSON line, or the exception that leaves it
format(rec, flags, probe) == dumps(structured_record(rec, flags, probe))

FmtIdle == [pc |-> "idle"]

\* the inputs of one format call: the configuration configure_logging was
\* given, the configuration custom_json_formatter loaded when imported
\* (config = load_config()), the record and the memory probe's outcome
FmtInputs ==
    [pc : {"input"},
     config : FlagSets,
     module_config : FlagSets,
     rec : [levelname : LevelNames, exc_info : ExcInfos, extra : SUBSET MetaKeys,
            value : MetaValues],
     probe : Probes]

\* a handler formats the record: formatter.format(record)
Format ==
    /\ fmt.pc = "input"
    /\ LET r == format(fmt.rec, fmt.module_config, fmt.probe)
       IN  fmt' = [pc |-> "done", config |-> fmt.config,
                   module_config |-> fmt.module_config,
                   rec |-> fmt.rec, probe |-> fmt.probe,
                   raised |-> r.raised, exc |-> r.exc, out |-> r.line]
    /\ UNCHANGED pipeVars

-----------------------------------------------------------------------------
(* The log files: creation in configure_logging, rotation in RotatingFileHandler *)

\* the process umask, which decides the mode of a file that open() creates
Umasks == {"022", "077"}

\* the max_log_file_size values explored, in records (LoggingConfig requires > 0)
LogFileSizes == {2}

\* the max_backup_files values explored (LoggingConfig requires >= 0)
BackupCounts == {0, 1}

NoFile == [exists |-> FALSE, mode |-> "none", size |-> 0]

\* the mode of a file created by open(path, "a"): 0o666 & ~umask
CreateMode(umask) == IF umask = "077" THEN "rw-------" ELSE "rw-r--r--"

\* if not os.path.exists(path): open(path, "a").close(); os.chmod(path, 0o600)
EnsureLogFile(f, umask) ==
    LET g == IF f.exists THEN f
             ELSE [exists |-> TRUE, mode |-> CreateMode(umask), size |-> 0]
    IN  [g EXCEPT !.mode = "rw-------"]

\* RotatingFileHandler.shouldRollover for a record of one unit:
\* stream.tell() + len(msg) >= maxBytes
shouldRollover(f, maxBytes) == f.size + 1 >= maxBytes

\* RotatingFileHandler.doRollover: with backupCount > 0 the file is renamed
\* to <path>.1 and _open() creates a new file at the path; with backupCount
\* = 0 the same file is reopened
doRollover(f, backupCount, umask) ==
    IF backupCount > 0
    THEN [exists |-> TRUE, mode |-> CreateMode(umask), size |-> 0]
    ELSE f

\* RotatingFileHandler.emit: roll over if the record would not fit, then write
FileEmit(f, maxBytes, backupCount, umask) ==
    LET g == IF shouldRollover(f, maxBytes) THEN doRollover(f, backupCount, umask)
             ELSE f
    IN  [g EXCEPT !.size = @ + 1]

\* the file at the path of a sink after the n writes its handlers have made,
\* starting from the file configure_logging leaves
RECURSIVE LogFileAfter(_, _, _, _)
LogFileAfter(n, maxBytes, backupCount, umask) ==
    IF n = 0
    THEN EnsureLogFile(NoFile, umask)
    ELSE FileEmit(LogFileAfter(n - 1, maxBytes, backupCount, umask),
                  maxBytes, backupCount, umask)

-----------------------------------------------------------------------------
(* Configuration loading: Config.load *)

\* default_settings_file: <project root>/config/settings.yaml
default_settings_file == "config/settings.yaml"

\* the paths a settings file may be at
Paths == {default_settings_file, "a.yaml", "b.yaml"}

\* what may be at a path: no file, an empty file, text that is no YAML, YAML
\* that fails validation, or one of two valid configurations
Contents == {"missing", "empty", "bad_yaml", "invalid", "valid_A", "valid_B"}

\* os.getenv("TEST_CONFIG_PATH"): None when unset, else the string
EnvValues == {"None", ""} \cup (Paths \ {default_settings_file})

\* settings_file = os.getenv("TEST_CONFIG_PATH"); if settings_file: Path(it)
\* else default_settings_file. The argument is overwritten before it is read.
SelectPath(settings_file, env) ==
    IF env # "None" /\ env # "" THEN env ELSE default_settings_file

\* open, yaml.safe_load, the emptiness test and cls(**settings) on the file
\* at path, with the except clauses that follow
ReadSettings(path, content) ==
    CASE content = "missing" ->
            [status |-> "raised", value |-> "FileNotFoundError",
             error_msg |-> <<"Configuration file ", path, " not found.">>]
      [] content = "bad_yaml" ->
            [status |-> "raised", value |-> "YAMLError",
             error_msg |-> <<"Error parsing YAML file ", path>>]
      [] content = "empty" ->
            [status |-> "raised", value |-> "ValueError",
             error_msg |-> <<"Configuration file is empty or invalid.">>]
      [] content = "invalid" ->
            [status |-> "raised", value |-> "ValidationError",
             error_msg |-> <<"validation error for Config">>]
      [] OTHER ->
            [status |-> "returned", value |-> content, error_msg |-> <<>>]

\* Config.load(settings_file) with the environment and the files it finds
Config_load(settings_file, env, fs) ==
    LET path == SelectPath(settings_file, env)
    IN  ReadSettings(path, fs[path])

LoadIdle == [pc |-> "idle"]

\* the inputs of one Config.load call: the argument, TEST_CONFIG_PATH and
\* the files at the paths
LoadInputs ==
    [pc : {"input"},
     settings_file : Paths,
     env : EnvValues,
     fs : [Paths -> Contents]]

\* one call of Config.load; FileNotFoundError, YAMLError and ValueError (of
\* which pydantic's ValidationError is a subclass) are recorded in
\* CONFIG_ERRORS before they are raised
Load ==
    /\ load.pc = "input"
    /\ LET r == Config_load(load.settings_file, load.env, load.fs)
       IN  /\ load' = [pc |-> "done", settings_file |-> load.settings_file,
                       env |-> load.env, fs |-> load.fs, result |-> r]
           /\ CONFIG_ERRORS' = IF r.status = "raised"
                               THEN Append(CONFIG_ERRORS, r.error_msg)
                               ELSE CONFIG_ERRORS
    /\ UNCHANGED <<rootHandlers, rootLevel, errHandlers, pipes, sinks, diag, admitted,
                   dropped, dispatched, broken, prod, nextId, lastCall, fmt>>

-----------------------------------------------------------------------------
(* The pipeline as a state machine *)

\* the state of the process before configure_logging is first called, with
\* the given producer threads
Start(threads) ==
    /\ rootHandlers = <<>>
    /\ rootLevel = "WARNING"
    /\ errHandlers = <<>>
    /\ pipes = <<>>
    /\ sinks = [file |-> <<>>, console |-> <<>>, error |-> <<>>]
    /\ diag = {}
    /\ admitted = <<>>
    /\ dropped = {}
    /\ dispatched = {}
    /\ CONFIG_ERRORS = <<>>
    /\ broken = NoFault
    /\ prod = [p \in threads |-> Idle("none")]
    /\ nextId = 1
    /\ lastCall = [status |-> "none",
                   cause |-> [type |-> "none", msg |-> ""],
                   exc |-> [type |-> "none", msg |-> <<>>],
                   rootBefore |-> <<>>,
                   nErrors |-> 0]

Init == Start({"p1"}) /\ fmt = FmtIdle /\ load = LoadIdle

InitMT == Start(Producers) /\ fmt = FmtIdle /\ load = LoadIdle

\* the configurations bootstrap is explored with on its own: the queue size
\* does not enter the control flow of configure_logging
BootConfigs == {c \in Configs : \A d \in Configs : d.log_queue_size <= c.log_queue_size}

\* a call of configure_logging with any of these configurations and any outcome
Configure ==
    \E c \in BootConfigs :
        \/ \E e \in StepErrors : \E i \in 1 .. Len(FailPoints) :
              configure_logging(c, FailPoints[i], e)
        \/ configure_logging(c, "none", HandlerError)

\* the application's bootstrap: the container holds configure_logging as a
\* Singleton provider, so it runs once, before the producers' log calls
Bootstrap ==
    /\ pipes = <<>>
    /\ \E c \in Configs : configure_logging(c, "none", HandlerError)

ProducerLog == \E p \in DOMAIN prod : \E k \in EventKinds : Log(p, k)

ProducerStep == \E p \in DOMAIN prod : LogStep(p)

Dispatch == \E g \in 1 .. Len(pipes) : Monitor(g)

Shutdown == \E g \in 1 .. Len(pipes) : Stop(g)

Fault == \E f \in DispatchFaults : InjectFault(f)

BootFault == \E f \in Faults : InjectFault(f)

Next ==
    \/ Bootstrap
    \/ ProducerLog
    \/ ProducerStep
    \/ Dispatch
    \/ Shutdown
    \/ Fault
    \/ ClearFault

\* the running pipeline with one producer thread: bootstrap, log calls, the
\* dispatch loop, listener shutdown and one sink fault
Spec == Init /\ [][Next]_vars

\* the same with two producer threads
SpecMT == InitMT /\ [][Next]_vars

NextBoot ==
    \/ Configure
    \/ ConfigLoadFails
    \/ BootFault

\* bootstrap on its own: repeated configure_logging calls, each failing at any
\* step or at none, with deferred configuration errors and one sink fault
SpecBoot == Init /\ [][NextBoot]_vars

InitFmt == Start({"p1"}) /\ fmt \in FmtInputs /\ load = LoadIdle

\* the formatter on its own: every input above, formatted once
SpecFmt == InitFmt /\ [][Format]_vars

\* configurations whose three thresholds vary independently
LevelConfigs ==
    [log_level : {"INFO", "WARNING", "ERROR"},
     file_log_level : {"INFO", "WARNING", "ERROR"},
     console_log_level : {"INFO", "WARNING", "ERROR"},
     log_queue_size : {n \in QueueSizes : \A m \in QueueSizes : m <= n},
     enable_memory_logging : BOOLEAN]

\* events below, at, between and above those thresholds
LevelEvents ==
    {[level |-> "DEBUG", exc |-> FALSE],
     [level |-> "INFO", exc |-> FALSE],
     [level |-> "WARNING", exc |-> FALSE],
     [level |-> "CRITICAL", exc |-> TRUE]}

BootstrapLevels ==
    /\ pipes = <<>>
    /\ \E c \in LevelConfigs : configure_logging(c, "none", HandlerError)

ProducerLogLevels == \E p \in DOMAIN prod : \E k \in LevelEvents : Log(p, k)

NextLevels ==
    \/ BootstrapLevels
    \/ ProducerLogLevels
    \/ ProducerStep
    \/ Dispatch

\* the running pipeline under every combination of thresholds, with no fault
SpecLevels == Init /\ [][NextLevels]_vars

InitLoad == Start({"p1"}) /\ fmt = FmtIdle /\ load \in LoadInputs

\* the configuration loader on its own: every input above, loaded once
SpecLoad == InitLoad /\ [][Load]_vars

-----------------------------------------------------------------------------
(* Properties *)

\* the positions of a sink at which a copy of the record with key k stands
Positions(s, k) == {n \in 1 .. Len(sinks[s]) : Key(sinks[s][n].rec) = k}

\* the records the listener of pipeline g has written to sink s
ViaQueue(s, g) ==
    {Key(sinks[s][n].rec) : n \in {m \in 1 .. Len(sinks[s]) :
                                      sinks[s][m].via = "queue" /\ sinks[s][m].gen = g}}

\* C1: sink isolation. For every record the dispatch loop has handled while
\* exactly one sink handler was failing, every other handler of the listener
\* whose level the record meets has received that record from the listener.
C1_SinkIsolation ==
    \A d \in dispatched :
        d.fault \in Faults =>
            \A i \in 1 .. Len(ListenerHandlers(d.gen)) :
                LET h == ListenerHandlers(d.gen)[i]
                IN  (h.kind # d.fault.kind /\ levelno[d.rec.level] >= levelno[h.level])
                        => Key(d.rec) \in ViaQueue(SinkOf(h.kind), d.gen)

\* C2: the worker never terminates because of a sink failure. In every step,
\* a running worker is still running afterwards, unless the step dequeued the
\* shutdown sentinel, and then it has stopped.
C2_WorkerSurvivesSinkFailure ==
    [][\A g \in 1 .. Len(pipes) :
          pipes[g].worker = "running" =>
              \/ pipes'[g].worker = "running"
              \/ /\ pipes'[g].worker = "stopped"
                 /\ pipes[g].queue # <<>>
                 /\ Head(pipes[g].queue) = sentinel]_vars

\* C2 witness: a handler raised while the listener handled one record, the
\* listener has since handled a later record, and the worker is running.
C2_Witness ==
    \E d1, d2 \in dispatched :
        /\ d1.gen = d2.gen
        /\ d1.fault \in Faults /\ d1.fault.mode = "handle"
        /\ [what |-> "print", kind |-> "listener", id |-> d1.rec.id, gen |-> d1.gen] \in diag
        /\ d2.rec.id > d1.rec.id
        /\ pipes[d1.gen].worker = "running"

\* C3: drop-new-on-full. No queue ever holds more than log_queue_size records;
\* a step taken while a queue is full leaves that queue as it was or removes
\* its head; and a producer whose next handler is the queue handler of a full
\* queue returns from its log call with the queue unchanged and its event
\* counted as dropped.
C3_DropNewOnFull ==
    [][/\ \A g \in 1 .. Len(pipes') :
             Len(pipes'[g].queue) <= pipes'[g].cfg.log_queue_size
       /\ \A g \in 1 .. Len(pipes) :
             LET q == pipes[g].queue
                 full == Len(q) >= pipes[g].cfg.log_queue_size
             IN  /\ full => (pipes'[g].queue = q \/ pipes'[g].queue = Tail(q))
                 /\ \A p \in DOMAIN prod :
                       ( /\ full
                         /\ prod[p].pc = "calling"
                         /\ prod[p].idx < Len(rootHandlers)
                         /\ rootHandlers[prod[p].idx + 1] = queue_handler(g)
                         /\ prod'[p] # prod[p] )
                       => /\ prod'[p] = Idle("returned")
                          /\ pipes' = pipes
                          /\ admitted' = admitted
                          /\ [key |-> Key(prod[p].rec), gen |-> g] \in dropped']_vars

\* C3 witness: a producer's event was dropped at a full queue, the queue still
\* holds log_queue_size earlier records, and the producer has returned.
C3_Witness ==
    \E x \in dropped : \E p \in DOMAIN prod :
        /\ x.key[1] = "event"
        /\ Len(pipes[x.gen].queue) = pipes[x.gen].cfg.log_queue_size
        /\ \A n \in 1 .. Len(pipes[x.gen].queue) : Key(pipes[x.gen].queue[n]) # x.key
        /\ prod[p] = Idle("returned")

\* the first position of sink s holding a copy of the record with key k
First(s, k) == CHOOSE n \in Positions(s, k) : \A m \in Positions(s, k) : n <= m

\* C4: FIFO delivery. With no sink fault, whenever two events admitted to the
\* same queue are both visible at a sink, the one admitted first becomes
\* visible there first.
C4_FifoPerSink ==
    broken = NoFault =>
        \A s \in {"file", "console"} :
            \A i, j \in 1 .. Len(admitted) :
                ( /\ i < j
                  /\ admitted[i].gen = admitted[j].gen
                  /\ Positions(s, admitted[i].key) # {}
                  /\ Positions(s, admitted[j].key) # {} )
                => First(s, admitted[i].key) < First(s, admitted[j].key)

\* C5: the error-file sink. With no sink fault, every ERROR or CRITICAL event
\* logged through the root logger that the pipeline has finished handling is
\* in the error-file sink, and nothing below ERROR is in it.
C5_ErrorsReachErrorFile ==
    broken = NoFault =>
        /\ \A d \in dispatched :
              (d.rec.kind = "event" /\ levelno[d.rec.level] >= levelno["ERROR"])
                  => Positions("error", Key(d.rec)) # {}
        /\ \A n \in 1 .. Len(sinks.error) :
              levelno[sinks.error[n].rec.level] >= levelno["ERROR"]

\* C6: a configure_logging call in which a step or a log call raised reaches
\* the caller as a LoggingConfigurationError whose message contains the
\* message of the exception that caused it.
C6_FailureIsWrapped ==
    lastCall.status = "raised" =>
        /\ lastCall.exc.type = "LoggingConfigurationError"
        /\ \E n \in 1 .. Len(lastCall.exc.msg) : lastCall.exc.msg[n] = lastCall.cause.msg

\* C6 witness: a call failed with an exception that is no OSError, after the
\* listener had been started.
C6_Witness ==
    /\ lastCall.status = "raised"
    /\ lastCall.cause = [type |-> "Exception", msg |-> "Unexpected failure"]
    /\ pipes[Len(pipes)].worker = "running"

\* C7: a failed configure_logging call leaves no partial pipeline: the root
\* logger's handlers are those from before the call, the call's listener is
\* not running, and none of its handlers is installed on a logger.
C7_NoPartialPipeline ==
    lastCall.status = "raised" =>
        /\ rootHandlers = lastCall.rootBefore
        /\ pipes[Len(pipes)].worker # "running"
        /\ \A n \in 1 .. Len(rootHandlers) : rootHandlers[n].gen # Len(pipes)
        /\ \A n \in 1 .. Len(errHandlers) : errHandlers[n].gen # Len(pipes)

\* the copies of deferred configuration error number i in the error-file sink
ConfigErrorCopies(i) ==
    {n \in 1 .. Len(sinks.error) :
        sinks.error[n].rec.kind = "config_error" /\ sinks.error[n].rec.id = i}

\* C8: deferred configuration errors. With no sink fault, whatever the number
\* of configure_logging calls, no configuration error message is in the
\* error-file sink more than once, and after a completed call each message
\* that existed at that call is there exactly once, at ERROR severity.
C8_ConfigErrorsOnce ==
    broken = NoFault =>
        \A i \in 1 .. Len(CONFIG_ERRORS) :
            /\ Cardinality(ConfigErrorCopies(i)) <= 1
            /\ (lastCall.status = "ok" /\ i <= lastCall.nErrors)
                   => Cardinality(ConfigErrorCopies(i)) = 1
            /\ \A n \in ConfigErrorCopies(i) : sinks.error[n].rec.level = "ERROR"

\* the fields each feature flag governs
Governed ==
    [enable_memory_logging |-> {"memory_usage_mb"},
     enable_execution_time_logging |-> {"execution_time_ms"},
     enable_request_metadata |-> {"request_id", "user_id", "feed_type", "trace_id", "span_id"},
     enable_stack_trace_logging |-> {"stack_trace"}]

\* C9: feature flags. In every formatted record, the fields governed by the
\* memory, execution-time and request-metadata flags of the configuration the
\* pipeline was bootstrapped with are present when the flag is enabled and
\* absent when it is disabled; stack_trace is absent when its flag is
\* disabled and present on ERROR and CRITICAL records when it is enabled.
C9_FlagsGovernFields ==
    (fmt.pc = "done" /\ ~fmt.raised) =>
        /\ \A f \in {"enable_memory_logging", "enable_execution_time_logging",
                     "enable_request_metadata"} :
              \A k \in Governed[f] : (k \in DOMAIN fmt.out) <=> fmt.config[f]
        /\ ~fmt.config.enable_stack_trace_logging => "stack_trace" \notin DOMAIN fmt.out
        /\ (fmt.config.enable_stack_trace_logging /\ fmt.rec.levelname \in {"ERROR", "CRITICAL"})
               => "stack_trace" \in DOMAIN fmt.out

\* C10: a formatted record of severity below ERROR has no stack_trace field,
\* whether or not exception info is attached to the record.
C10_NoStackTraceBelowError ==
    (fmt.pc = "done" /\ ~fmt.raised /\ levelno[fmt.rec.levelname] < levelno["ERROR"])
        => "stack_trace" \notin DOMAIN fmt.out

\* C11: every formatted record of severity ERROR or CRITICAL to which no
\* exception is attached (exc_info is None or False) has a stack_trace field
\* equal to the fixed "no exception info was available" sentinel.
C11_SentinelWithoutException ==
    ( /\ fmt.pc = "done"
      /\ ~fmt.raised
      /\ fmt.rec.levelname \in {"ERROR", "CRITICAL"}
      /\ fmt.rec.exc_info \in {"None", "False"} )
    => /\ "stack_trace" \in DOMAIN fmt.out
       /\ fmt.out["stack_trace"] = "sentinel"

\* C14: enrichment never aborts a record. Every format call returns a JSON
\* line, whatever the caller's metadata values and whatever the outcome of
\* the memory probe, and no field of the line holds a value that is not JSON.
C14_EnrichmentNeverRaises ==
    fmt.pc = "done" =>
        /\ ~fmt.raised
        /\ \A k \in DOMAIN fmt.out : fmt.out[k] # "object"

\* the LogRecord a sink handler passes to its formatter (setFormatter(formatter)
\* on the file, error and stream handlers): the severity and exc_info of the
\* copy the handler was given
LogRecordOf(rec) ==
    [levelname |-> rec.level,
     exc_info |-> IF rec.exc THEN "tuple" ELSE "None",
     extra |-> {},
     value |-> "str"]

\* C12: every copy written to a sink of an ERROR or CRITICAL event that was
\* logged with an exception attached, whether a handler of the root logger
\* wrote it or the listener did after the queue, is a JSON line whose
\* stack_trace field holds the formatted exception.
C12_StackTraceOnEveryCopy ==
    \A s \in DOMAIN sinks : \A n \in 1 .. Len(sinks[s]) :
        LET e == sinks[s][n]
        IN  ( /\ e.rec.kind = "event"
              /\ levelno[e.rec.level] >= levelno["ERROR"]
              /\ \A k \in EventKinds : k.level = e.rec.level => k.exc )
            => \A flags \in FlagSets :
                  LET r == format(LogRecordOf(e.rec), flags, "ok")
                  IN  /\ ~r.raised
                      /\ "stack_trace" \in DOMAIN r.line
                      /\ r.line["stack_trace"] = "formatted"

\* C13: after a successful bootstrap no log call of a producer ends with an
\* exception raised to the producer, whatever happens at the queue and at the
\* sinks.
C13_ProducerNeverSeesException ==
    \A p \in DOMAIN prod : prod[p].result # "raised"

\* C15: shutdown. Once the worker of a pipeline has been stopped, every event
\* admitted to its queue has been delivered by the listener, the queue is
\* empty, and the file handles of the pipeline's sinks are closed.
C15_ShutdownDrainsAndCloses ==
    \A g \in 1 .. Len(pipes) :
        pipes[g].worker = "stopped" =>
            /\ pipes[g].queue = <<>>
            /\ \A i \in 1 .. Len(admitted) :
                  admitted[i].gen = g =>
                      \E d \in dispatched : d.gen = g /\ Key(d.rec) = admitted[i].key
            /\ ~pipes[g].fileOpen
            /\ ~pipes[g].errOpen

\* C18: clear-then-install. After every successful configure_logging call
\* the root logger holds exactly three handlers, one stream handler, one file
\* handler and one queue handler, all created by that call.
C18_ClearThenInstall ==
    lastCall.status = "ok" =>
        /\ Len(rootHandlers) = 3
        /\ \A k \in {"stream", "file", "queue"} :
              Cardinality({n \in 1 .. Len(rootHandlers) : rootHandlers[n].kind = k}) = 1
        /\ \A n \in 1 .. Len(rootHandlers) : rootHandlers[n].gen = Len(pipes)

\* C18 witness: a later call succeeded on a root logger that still held the
\* handlers an earlier call had installed.
C18_Witness ==
    /\ lastCall.status = "ok"
    /\ Len(pipes) >= 2
    /\ lastCall.rootBefore # <<>>
    /\ \E n \in 1 .. Len(lastCall.rootBefore) : lastCall.rootBefore[n].gen < Len(pipes)

\* C19: every copy of a producer's event in a sink was written by the
\* listener's worker thread, none by the thread of the producer.
C19_OnlyWorkerWritesSinks ==
    \A s \in DOMAIN sinks : \A n \in 1 .. Len(sinks[s]) :
        sinks[s][n].rec.kind = "event" => sinks[s][n].via = "queue"

\* every configure_logging call made so far has returned its logger: each
\* installed its error handler, and no sink fault made one of its log calls raise
AllCallsSucceeded ==
    /\ lastCall.status = "ok"
    /\ broken = NoFault
    /\ \A g \in 1 .. Len(pipes) : \E n \in 1 .. Len(errHandlers) : errHandlers[n].gen = g

\* C20: after any number of successful configure_logging calls exactly one
\* worker is running, and exactly one pipeline holds the general log file open
\* and exactly one the error log file.
C20_OneWorkerOnePipeline ==
    AllCallsSucceeded =>
        /\ Cardinality({g \in 1 .. Len(pipes) : pipes[g].worker = "running"}) = 1
        /\ Cardinality({g \in 1 .. Len(pipes) : pipes[g].fileOpen}) = 1
        /\ Cardinality({g \in 1 .. Len(pipes) : pipes[g].errOpen}) = 1

\* C17: Config.load(settings_file) reads the file at the path it is passed:
\* its outcome, the configuration returned or the error raised, is the one
\* that reading the file at settings_file gives.
C17_LoadReadsPassedPath ==
    load.pc = "done" =>
        LET expected == ReadSettings(load.settings_file, load.fs[load.settings_file])
        IN  /\ load.result.status = expected.status
            /\ load.result.value = expected.value

\* C16: after a successful bootstrap, with no sink fault, the general log
\* file and the error log file exist with mode rw------- after every write to
\* them, whatever the rotation settings and the umask of the process.
C16_LogFilesOwnerOnly ==
    (Len(pipes) >= 1 /\ lastCall.status = "ok" /\ broken = NoFault) =>
        \A s \in {"file", "error"} : \A maxBytes \in LogFileSizes :
            \A backupCount \in BackupCounts : \A umask \in Umasks :
                LET f == LogFileAfter(Len(sinks[s]), maxBytes, backupCount, umask)
                IN  f.exists /\ f.mode = "rw-------"

\* the threshold configure_logging gives the handler of a sink
Threshold(s, c) ==
    CASE s = "file" -> c.file_log_level
      [] s = "console" -> c.console_log_level
      [] s = "error" -> "ERROR"

\* the severity passes the root level and the threshold of sink s
Passes(level, s, c) ==
    /\ levelno[level] >= levelno[c.log_level]
    /\ levelno[level] >= levelno[Threshold(s, c)]

\* the copies of event id that sink s was given over the path via
Copies(s, id, via) ==
    {n \in 1 .. Len(sinks[s]) :
        /\ sinks[s][n].rec.kind = "event"
        /\ sinks[s][n].rec.id = id
        /\ sinks[s][n].via = via}

\* C21: independent thresholds. Every record logged through the root logger
\* that is in a sink has a severity of at least the root log_level and at
\* least that sink's own threshold, on the direct path and on the queue path;
\* and for every event the listener has handled (the root logger's own
\* handlers have handled it before, the queue handler being the last of them),
\* whether the general file or the console holds a copy, on either path, is
\* decided by the root level and that sink's own threshold alone.
C21_IndependentThresholds ==
    \A g \in 1 .. Len(pipes) :
        LET c == pipes[g].cfg
        IN  /\ \A s \in DOMAIN sinks : \A n \in 1 .. Len(sinks[s]) :
                  (sinks[s][n].gen = g /\ sinks[s][n].rec.kind \in {"event", "startup"})
                      => Passes(sinks[s][n].rec.level, s, c)
            /\ \A s \in {"file", "console"} : \A d \in dispatched :
                  (d.gen = g /\ d.rec.kind = "event") =>
                      /\ Copies(s, d.rec.id, "queue") # {} <=> Passes(d.rec.level, s, c)
                      /\ Copies(s, d.rec.id, "direct") # {} <=> Passes(d.rec.level, s, c)

\* C21 witness: with the file threshold below the console threshold, the
\* general file holds a WARNING event on both paths and the console holds
\* none of its copies.
C21_Witness ==
    \E d \in dispatched :
        /\ d.rec.kind = "event" /\ d.rec.level = "WARNING"
        /\ pipes[d.gen].cfg.file_log_level = "INFO"
        /\ pipes[d.gen].cfg.console_log_level = "ERROR"
        /\ Copies("file", d.rec.id, "queue") # {}
        /\ Copies("file", d.rec.id, "direct") # {}
        /\ Copies("console", d.rec.id, "queue") = {}
        /\ Copies("console", d.rec.id, "direct") = {}

\* C22: at-most-once delivery. For every event a producer has logged through
\* the root logger, the general file holds at most one record of it and the
\* console holds at most one.
C22_AtMostOncePerSink ==
    \A s \in {"file", "console"} : \A id \in 1 .. MaxEvents :
        Cardinality(Copies(s, id, "queue") \cup Copies(s, id, "direct")) <= 1

====
